---- MODULE Spec2Model ----
(***************************************************************************)
(* State-machine model of the Emerald save parser in                      *)
(* src/lib/parser/core-wasm/src: SaveParser (save_parser.rs), Pokemon     *)
(* (pokemon.rs), the helpers of utils.rs and the constants of types.rs.   *)
(*                                                                         *)
(* Representation.                                                         *)
(*  - A byte buffer (Vec<u8>, &[u8]) is a record [len, nz, at]: its        *)
(*    length, the set of the offsets of its non-zero bytes and the        *)
(*    function from these to their values; every other offset below len   *)
(*    reads 0.  Two buffers are equal exactly when they hold the same     *)
(*    bytes.                                                               *)
(*  - A u32 is a record [hi, lo] of its two 16-bit halves, so that 32-bit  *)
(*    wrap-around is computed exactly.  u16 and u8 are naturals.           *)
(***************************************************************************)
EXTENDS Integers, Sequences, FiniteSets, TLC

----------------------------------------------------------------------------
(* types.rs: constants *)

VANILLA_EMERALD_SIGNATURE == [hi |-> 2049, lo |-> 8229]   \* 0x0801_2025
POKEMON_SIZE == 100
SECTOR_SIZE == 4096
SECTOR_DATA_SIZE == 3968
PARTY_OFFSET == 568          \* 0x238
PARTY_COUNT_OFFSET == 564    \* 0x234
PLAY_TIME_HOURS == 14        \* 0x0E
PLAY_TIME_MINUTES == 16      \* 0x10
PLAY_TIME_SECONDS == 17      \* 0x11
\* save_parser.rs: literals
MIN_SAVE_SIZE == 131072
SLOT2_START == 14
NUM_SECTORS == 32
FOOTER_SIZE == 12
max_party_size == 12
PLAYER_NAME_LENGTH == 8

----------------------------------------------------------------------------
(* Byte buffers *)

EmptyMap == [o \in {} |-> 0]

\* A buffer of n bytes: nz is the set of the offsets of its non-zero bytes,
\* at gives their values.
Bytes(n, nz, f) == [len |-> n, nz |-> nz, at |-> [o \in nz |-> f[o]]]

\* A buffer of n bytes holding f's non-zero bytes below n, and 0 elsewhere.
Buf(n, f) == Bytes(n, {o \in DOMAIN f : o < n /\ f[o] # 0}, f)

\* Vec::new()
EmptyBuf == Bytes(0, {}, EmptyMap)

\* vec![0u8; n]
Zeroed(n) == Bytes(n, {}, EmptyMap)

\* bytes[o], for o < bytes.len
Get(bytes, o) == IF o \in bytes.nz THEN bytes.at[o] ELSE 0

\* &bytes[from..to], for from <= to <= bytes.len
Slice(bytes, from, to) ==
    LET src == {o \in bytes.nz : from <= o /\ o < to}
    IN  [len |-> to - from,
         nz  |-> {o - from : o \in src},
         at  |-> [o \in {s - from : s \in src} |-> bytes.at[o + from]]]

\* dst[off..off + src.len].copy_from_slice(src)
CopyInto(dst, off, src) ==
    LET keep == {o \in dst.nz : o < off \/ o >= off + src.len}
        new  == {o + off : o \in src.nz}
    IN  [len |-> dst.len,
         nz  |-> keep \cup new,
         at  |-> [o \in keep \cup new |->
                    IF o \in new THEN src.at[o - off] ELSE dst.at[o]]]

\* bytes[o] = v, for o < bytes.len
Put(bytes, o, v) ==
    LET d == IF v = 0 THEN bytes.nz \ {o} ELSE bytes.nz \cup {o}
    IN  [len |-> bytes.len,
         nz  |-> d,
         at  |-> [x \in d |-> IF x = o THEN v ELSE bytes.at[x]]]

----------------------------------------------------------------------------
(* utils.rs: integer helpers *)

U32(h, l) == [hi |-> h, lo |-> l]
ZeroU32 == U32(0, 0)

\* u32::from_le_bytes([b0, b1, b2, b3])
from_le_bytes(b0, b1, b2, b3) == U32(b3 * 256 + b2, b1 * 256 + b0)

\* u32::wrapping_add
wrapping_add(a, b) ==
    LET l == a.lo + b.lo
    IN  U32((a.hi + b.hi + (l \div 65536)) % 65536, l % 65536)

\* whether a + b leaves the u32 range
add_overflows(a, b) == a.hi + b.hi + ((a.lo + b.lo) \div 65536) >= 65536

\* a > b on u32
u32_gt(a, b) == a.hi > b.hi \/ (a.hi = b.hi /\ a.lo > b.lo)

read_u16_le(bytes, offset) ==
    IF offset + 2 <= bytes.len
    THEN Get(bytes, offset) + 256 * Get(bytes, offset + 1)
    ELSE 0

read_u32_le(bytes, offset) ==
    IF offset + 4 <= bytes.len
    THEN from_le_bytes(Get(bytes, offset), Get(bytes, offset + 1),
                       Get(bytes, offset + 2), Get(bytes, offset + 3))
    ELSE ZeroU32

write_u16_le(bytes, offset, value) ==
    IF offset + 2 <= bytes.len
    THEN Put(Put(bytes, offset, value % 256), offset + 1, value \div 256)
    ELSE bytes

write_u32_le(bytes, offset, value) ==
    IF offset + 4 <= bytes.len
    THEN Put(Put(Put(Put(bytes, offset, value.lo % 256),
                     offset + 1, value.lo \div 256),
                 offset + 2, value.hi % 256),
             offset + 3, value.hi \div 256)
    ELSE bytes

\* The wrapping sum of the complete 4-byte chunks in the set ks of chunk
\* indices, each read as a little-endian u32.
RECURSIVE SumChunks(_, _)
SumChunks(sector_data, ks) ==
    IF ks = {} THEN ZeroU32
    ELSE LET k == CHOOSE x \in ks : TRUE
             value == from_le_bytes(Get(sector_data, 4 * k), Get(sector_data, 4 * k + 1),
                                    Get(sector_data, 4 * k + 2), Get(sector_data, 4 * k + 3))
         IN  wrapping_add(SumChunks(sector_data, ks \ {k}), value)

\* Mutant: the sum is truncated to its low half without folding the high
\* half into it.
calculate_sector_checksum_m(sector_data) ==
    LET complete == {o \div 4 : o \in {x \in sector_data.nz : 4 * (x \div 4) + 4 <= sector_data.len}}
        checksum == SumChunks(sector_data, complete)
    IN  checksum.lo

\* calculate_sector_checksum: chunks(4) visits every chunk; a chunk whose four
\* bytes are all 0 adds 0 to the wrapping sum, so the sum is taken over the
\* complete chunks that hold a non-zero byte.  A trailing chunk shorter than
\* 4 bytes is skipped (chunk.len() == 4).
calculate_sector_checksum(sector_data) ==
    LET complete == {o \div 4 : o \in {x \in sector_data.nz : 4 * (x \div 4) + 4 <= sector_data.len}}
        checksum == SumChunks(sector_data, complete)
    IN  ((checksum.hi + checksum.lo) % 65536) % 65536

----------------------------------------------------------------------------
(* save_parser.rs: sector validation, slot selection, sector table *)

SectorInfo(id, checksum, counter, valid) ==
    [id |-> id, checksum |-> checksum, counter |-> counter, valid |-> valid]

\* Mutant: the signature is read but not compared.
get_sector_info_internal_m(save_data, sector_index) ==
    IF save_data.len = 0 THEN SectorInfo(0, 0, ZeroU32, FALSE)
    ELSE
    LET footer_offset == (sector_index * SECTOR_SIZE) + SECTOR_SIZE - FOOTER_SIZE IN
    IF footer_offset + FOOTER_SIZE > save_data.len THEN SectorInfo(0, 0, ZeroU32, FALSE)
    ELSE
    LET sector_id == read_u16_le(save_data, footer_offset)
        checksum  == read_u16_le(save_data, footer_offset + 2)
        counter   == read_u32_le(save_data, footer_offset + 8)
        sector_start == sector_index * SECTOR_SIZE
        sector_data  == Slice(save_data, sector_start, sector_start + SECTOR_DATA_SIZE)
        calculated_checksum == calculate_sector_checksum(sector_data)
    IN  SectorInfo(sector_id, checksum, counter, calculated_checksum = checksum)

get_sector_info_internal(save_data, sector_index) ==
    IF save_data.len = 0 THEN SectorInfo(0, 0, ZeroU32, FALSE)
    ELSE
    LET footer_offset == (sector_index * SECTOR_SIZE) + SECTOR_SIZE - FOOTER_SIZE IN
    IF footer_offset + FOOTER_SIZE > save_data.len THEN SectorInfo(0, 0, ZeroU32, FALSE)
    ELSE
    LET sector_id == read_u16_le(save_data, footer_offset)
        checksum  == read_u16_le(save_data, footer_offset + 2)
        signature == read_u32_le(save_data, footer_offset + 4)
        counter   == read_u32_le(save_data, footer_offset + 8)
    IN
    IF signature # VANILLA_EMERALD_SIGNATURE
    THEN SectorInfo(sector_id, checksum, counter, FALSE)
    ELSE
    LET sector_start == sector_index * SECTOR_SIZE
        sector_data  == Slice(save_data, sector_start, sector_start + SECTOR_DATA_SIZE)
        calculated_checksum == calculate_sector_checksum(sector_data)
    IN  SectorInfo(sector_id, checksum, counter, calculated_checksum = checksum)

\* get_counter_sum over the sectors from..to-1: the u32 sum of the valid
\* sectors' counters, and whether an addition left the u32 range (where a
\* build with overflow checks panics and one without wraps).
RECURSIVE get_counter_sum(_, _, _)
get_counter_sum(save_data, from, to) ==
    IF from >= to THEN [sum |-> ZeroU32, overflow |-> FALSE]
    ELSE LET rest == get_counter_sum(save_data, from, to - 1)
             info == get_sector_info_internal(save_data, to - 1)
         IN  IF info.valid
             THEN [sum |-> wrapping_add(rest.sum, info.counter),
                   overflow |-> rest.overflow \/ add_overflows(rest.sum, info.counter)]
             ELSE rest

\* determine_active_slot: the new active_slot_start, and whether one of its
\* two sums left the u32 range.
determine_active_slot(save_data) ==
    LET slot1_counter_sum == get_counter_sum(save_data, 0, SLOT2_START)
        slot2_counter_sum == get_counter_sum(save_data, SLOT2_START, NUM_SECTORS)
    IN  [start |-> IF u32_gt(slot2_counter_sum.sum, slot1_counter_sum.sum)
                   THEN SLOT2_START ELSE 0,
         overflow |-> slot1_counter_sum.overflow \/ slot2_counter_sum.overflow]

\* Mutant: an id already in the table keeps its first sector.
MapInsert_m(m, k, v) == [x \in DOMAIN m \cup {k} |-> IF x \in DOMAIN m THEN m[x] ELSE v]

\* HashMap::insert
MapInsert(m, k, v) == [x \in DOMAIN m \cup {k} |-> IF x = k THEN v ELSE m[x]]

\* Mutant: the table is not emptied.
sector_map_clear_m(map) == map

\* self.sector_map.clear()
sector_map_clear(map) == EmptyMap

\* The loop of build_sector_map over the sectors from..to-1, ascending,
\* inserting into map.
RECURSIVE InsertValid(_, _, _, _)
InsertValid(save_data, from, to, map) ==
    IF from >= to THEN map
    ELSE LET before == InsertValid(save_data, from, to - 1, map)
             sector_info == get_sector_info_internal(save_data, to - 1)
         IN  IF sector_info.valid
             THEN MapInsert(before, sector_info.id, to - 1)
             ELSE before

\* build_sector_map on a parser whose table is map
build_sector_map(save_data, start, map) ==
    LET cleared == sector_map_clear(map) IN
    IF start = 0
    THEN InsertValid(save_data, 0, SLOT2_START, cleared)
    ELSE InsertValid(save_data, SLOT2_START, NUM_SECTORS, cleared)

----------------------------------------------------------------------------
(* utils.rs: text codec.  A String is a sequence of chars; a char is a      *)
(* string naming it ("A", " ", and "NUL" for '\0').                         *)

GBA_CHAR_MAP == <<
    <<0, " ">>, <<161, "0">>, <<162, "1">>, <<163, "2">>, <<164, "3">>, <<165, "4">>,
    <<166, "5">>, <<167, "6">>, <<168, "7">>, <<169, "8">>, <<170, "9">>, <<187, "A">>,
    <<188, "B">>, <<189, "C">>, <<190, "D">>, <<191, "E">>, <<192, "F">>, <<193, "G">>,
    <<194, "H">>, <<195, "I">>, <<196, "J">>, <<197, "K">>, <<198, "L">>, <<199, "M">>,
    <<200, "N">>, <<201, "O">>, <<202, "P">>, <<203, "Q">>, <<204, "R">>, <<205, "S">>,
    <<206, "T">>, <<207, "U">>, <<208, "V">>, <<209, "W">>, <<210, "X">>, <<211, "Y">>,
    <<212, "Z">>, <<213, "a">>, <<214, "b">>, <<215, "c">>, <<216, "d">>, <<217, "e">>,
    <<218, "f">>, <<219, "g">>, <<220, "h">>, <<221, "i">>, <<222, "j">>, <<223, "k">>,
    <<224, "l">>, <<225, "m">>, <<226, "n">>, <<227, "o">>, <<228, "p">>, <<229, "q">>,
    <<230, "r">>, <<231, "s">>, <<232, "t">>, <<233, "u">>, <<234, "v">>, <<235, "w">>,
    <<236, "x">>, <<237, "y">>, <<238, "z">>, <<52, "!">>, <<53, "?">>, <<54, ".">>,
    <<55, "-">>, <<56, "middot">>, <<57, "hellip">>, <<58, "dquote">>, <<59, "dquote">>, <<60, "quote">>,
    <<61, "quote">>, <<62, "male">>, <<63, "female">>, <<81, "/">>, <<84, ",">>, <<85, "times">>,
    <<121, "+">>, <<122, "%">>, <<123, "(">>, <<124, ")">>, <<133, "&">>, <<104, ":">>,
    <<105, ";">>, <<106, "[">>, <<107, "]">>, <<45, "<">>, <<46, ">">>,
    <<80, " ">>, <<255, "NUL">> >>

\* The least index of a set of indices (Iterator::find returns the first match).
First(idx) == CHOOSE i \in idx : \A j \in idx : i <= j

\* GBA_CHAR_MAP.iter().find(|(b, _)| *b == byte): the entry's index, 0 for None
find_by_byte(byte) ==
    LET idx == {i \in 1..Len(GBA_CHAR_MAP) : GBA_CHAR_MAP[i][1] = byte}
    IN  IF idx = {} THEN 0 ELSE First(idx)

\* GBA_CHAR_MAP.iter().find(|(_, c)| *c == ch): the entry's index, 0 for None
find_by_char(ch) ==
    LET idx == {i \in 1..Len(GBA_CHAR_MAP) : GBA_CHAR_MAP[i][2] = ch}
    IN  IF idx = {} THEN 0 ELSE First(idx)

\* The number of 0xFF bytes that end bytes[0..n].
RECURSIVE trailing_ffs(_, _)
trailing_ffs(bytes, n) ==
    IF n = 0 \/ Get(bytes, n - 1) # 255 THEN 0 ELSE 1 + trailing_ffs(bytes, n - 1)

\* The inner loop of find_string_end from position j: whether a byte in
\* 0x01..0x0F is met before a byte other than 0xFF and 0x00.
RECURSIVE garbage_follows(_, _)
garbage_follows(bytes, j) ==
    IF j >= bytes.len THEN FALSE
    ELSE LET next_byte == Get(bytes, j) IN
         IF next_byte > 0 /\ next_byte < 16 THEN TRUE
         ELSE IF next_byte # 255 /\ next_byte # 0 THEN FALSE
         ELSE garbage_follows(bytes, j + 1)

\* Mutant: the garbage pattern is looked for before the trailing padding.
find_string_end_m(bytes) ==
    LET hits == {i \in 0..(bytes.len - 1) :
                    /\ Get(bytes, i) = 255
                    /\ i + 1 < bytes.len
                    /\ garbage_follows(bytes, i + 1)}
    IN  IF hits # {} THEN First(hits)
        ELSE IF trailing_ffs(bytes, bytes.len) > 2
        THEN bytes.len - trailing_ffs(bytes, bytes.len)
        ELSE bytes.len

find_string_end(bytes) ==
    IF trailing_ffs(bytes, bytes.len) > 2
    THEN bytes.len - trailing_ffs(bytes, bytes.len)
    ELSE LET hits == {i \in 0..(bytes.len - 1) :
                        /\ Get(bytes, i) = 255
                        /\ i + 1 < bytes.len
                        /\ garbage_follows(bytes, i + 1)}
         IN  IF hits = {} THEN bytes.len ELSE First(hits)

\* str::trim_start / trim_end / trim: the only whitespace char of the table is " "
RECURSIVE trim_start(_)
trim_start(s) == IF s # <<>> /\ Head(s) = " " THEN trim_start(Tail(s)) ELSE s

RECURSIVE trim_end(_)
trim_end(s) ==
    IF s # <<>> /\ s[Len(s)] = " " THEN trim_end(SubSeq(s, 1, Len(s) - 1)) ELSE s

trim(s) == trim_end(trim_start(s))

\* The loop of bytes_to_gba_string over bytes[..n].
RECURSIVE decode_prefix(_, _)
decode_prefix(bytes, n) ==
    IF n = 0 THEN <<>>
    ELSE LET e == find_by_byte(Get(bytes, n - 1))
             before == decode_prefix(bytes, n - 1)
         IN  IF e # 0 /\ GBA_CHAR_MAP[e][2] # "NUL"
             THEN Append(before, GBA_CHAR_MAP[e][2])
             ELSE before

bytes_to_gba_string(bytes) == trim(decode_prefix(bytes, find_string_end(bytes)))

\* The loop of gba_string_to_bytes over the first n chars of text.
RECURSIVE encode_prefix(_, _, _)
encode_prefix(text, length, n) ==
    IF n = 0 THEN [o \in 0..(length - 1) |-> 255]
    ELSE LET e == find_by_char(text[n])
             before == encode_prefix(text, length, n - 1)
         IN  [before EXCEPT ![n - 1] = IF e # 0 THEN GBA_CHAR_MAP[e][1] ELSE 0]

\* Mutant: the last byte is kept for a terminator.
gba_string_to_bytes_m(text, length) ==
    LET room == IF length = 0 THEN 0 ELSE length - 1
        n == IF Len(text) < room THEN Len(text) ELSE room
    IN  Buf(length, encode_prefix(text, length, n))

gba_string_to_bytes(text, length) ==
    LET n == IF Len(text) < length THEN Len(text) ELSE length
    IN  Buf(length, encode_prefix(text, length, n))

----------------------------------------------------------------------------
(* pokemon.rs *)

Ok(v) == [ok |-> TRUE, val |-> v, err |-> ""]
Err(e, v) == [ok |-> FALSE, val |-> v, err |-> e]

\* Pokemon::new; from_bytes copies the slice (bytes.to_vec()) and calls it
Pokemon_new(raw_bytes) ==
    IF raw_bytes.len < 100
    THEN Err("Pokemon data must be at least 100 bytes", [raw_bytes |-> EmptyBuf])
    ELSE Ok([raw_bytes |-> raw_bytes])

Pokemon_from_bytes(bytes) == Pokemon_new(bytes)

PERSONALITY == 0
OT_ID == 4
CURRENT_HP == 86      \* 0x56
MAX_HP == 88          \* 0x58
ATTACK == 90          \* 0x5A
DEFENSE == 92         \* 0x5C
SPEED == 94           \* 0x5E
SP_ATTACK == 96       \* 0x60
SP_DEFENSE == 98      \* 0x62
STATUS == 80          \* 0x50
LEVEL == 84           \* 0x54

personality(p) == read_u32_le(p.raw_bytes, PERSONALITY)

\* Mutant: only the low 16 bits of the personality are tested.
is_valid_m(p) == p.raw_bytes.len >= 100 /\ read_u16_le(p.raw_bytes, PERSONALITY) # 0

is_valid(p) == p.raw_bytes.len >= 100 /\ personality(p) # ZeroU32

----------------------------------------------------------------------------
(* save_parser.rs: block reassembly and decoding *)

\* The loop of extract_saveblock1 over the logical ids 1..upto.
RECURSIVE copy_sectors(_, _, _)
copy_sectors(data, map, upto) ==
    IF upto = 0 THEN Zeroed(SECTOR_DATA_SIZE * 4)
    ELSE LET saveblock1_data == copy_sectors(data, map, upto - 1)
             sector_id == upto
         IN  IF sector_id \in DOMAIN map
             THEN LET sector_idx == map[sector_id]
                      start_offset == sector_idx * SECTOR_SIZE
                      sector_data == Slice(data, start_offset, start_offset + SECTOR_DATA_SIZE)
                      chunk_offset == ((sector_id - 1) * SECTOR_DATA_SIZE) % 65536
                  IN  CopyInto(saveblock1_data, chunk_offset, sector_data)
             ELSE saveblock1_data

\* Mutant: the loop stops before logical id 4 (1..4 for 1..=4).
extract_saveblock1_m(data, map) == Ok(copy_sectors(data, map, 3))

extract_saveblock1(data, map) == Ok(copy_sectors(data, map, 4))

\* Mutant: a missing logical id 0 gives a zero-filled block, as in
\* extract_saveblock1, in place of the error.
extract_saveblock2_m(data, map) ==
    IF 0 \in DOMAIN map
    THEN LET start_offset == map[0] * SECTOR_SIZE
         IN  Ok(Slice(data, start_offset, start_offset + SECTOR_DATA_SIZE))
    ELSE Ok(Zeroed(SECTOR_DATA_SIZE))

extract_saveblock2(data, map) ==
    IF 0 \in DOMAIN map
    THEN LET start_offset == map[0] * SECTOR_SIZE
         IN  Ok(Slice(data, start_offset, start_offset + SECTOR_DATA_SIZE))
    ELSE Err("SaveBlock2 sector (ID 0) not found", EmptyBuf)

\* The loop of parse_party_pokemon from slot on, for party_count slots.
RECURSIVE parse_slots(_, _, _)
parse_slots(saveblock1_data, slot, party_count) ==
    IF slot >= party_count THEN <<>>
    ELSE LET offset == PARTY_OFFSET + slot * POKEMON_SIZE IN
         IF offset + POKEMON_SIZE > saveblock1_data.len THEN <<>>
         ELSE LET pokemon_data == Slice(saveblock1_data, offset, offset + POKEMON_SIZE)
                  made == Pokemon_from_bytes(pokemon_data)
              IN  IF made.ok /\ is_valid(made.val)
                  THEN <<made.val>> \o parse_slots(saveblock1_data, slot + 1, party_count)
                  ELSE <<>>

\* parse_party_pokemon (its console_log of the bytes around the count is no
\* part of the result)
parse_party_pokemon(saveblock1_data) ==
    IF PARTY_COUNT_OFFSET >= saveblock1_data.len THEN Ok(<<>>)
    ELSE LET party_count == Get(saveblock1_data, PARTY_COUNT_OFFSET) IN
         IF party_count > max_party_size
         THEN Err("Invalid party count: " \o ToString(party_count), <<>>)
         ELSE IF party_count = 0 THEN Ok(<<>>)
         ELSE Ok(parse_slots(saveblock1_data, 0, party_count))

parse_player_name(saveblock2_data) ==
    IF saveblock2_data.len < PLAYER_NAME_LENGTH THEN <<"U", "n", "k", "n", "o", "w", "n">>
    ELSE LET name == bytes_to_gba_string(Slice(saveblock2_data, 0, PLAYER_NAME_LENGTH))
         IN  IF name = <<>> THEN <<"U", "n", "k", "n", "o", "w", "n">> ELSE name

parse_play_time(saveblock2_data) ==
    IF saveblock2_data.len < PLAY_TIME_SECONDS + 1
    THEN [hours |-> 0, minutes |-> 0, seconds |-> 0]
    ELSE [hours   |-> read_u16_le(saveblock2_data, PLAY_TIME_HOURS),
          minutes |-> IF PLAY_TIME_MINUTES < saveblock2_data.len
                      THEN Get(saveblock2_data, PLAY_TIME_MINUTES) ELSE 0,
          seconds |-> IF PLAY_TIME_SECONDS < saveblock2_data.len
                      THEN Get(saveblock2_data, PLAY_TIME_SECONDS) ELSE 0]

NoSaveData == [player_name |-> <<>>, active_slot |-> 0,
               play_time |-> [hours |-> 0, minutes |-> 0, seconds |-> 0]]

\* (self.active_slot_start / 14) as u8
slot_number(start) == (start \div 14) % 256

\* SaveParser::parse on a parser with the fields data, start, map
parse_result(data, start, map) ==
    IF data.len = 0 THEN Err("No save data loaded", NoSaveData)
    ELSE LET saveblock1 == extract_saveblock1(data, map)
             saveblock2 == extract_saveblock2(data, map)
         IN  IF ~saveblock1.ok THEN Err(saveblock1.err, NoSaveData)
             ELSE IF ~saveblock2.ok THEN Err(saveblock2.err, NoSaveData)
             ELSE Ok([player_name |-> parse_player_name(saveblock2.val),
                      active_slot |-> slot_number(start),
                      play_time   |-> parse_play_time(saveblock2.val)])

\* SaveParser::get_party_pokemon
get_party_pokemon_result(data, map) ==
    IF data.len = 0 THEN Err("No save data loaded", <<>>)
    ELSE LET saveblock1 == extract_saveblock1(data, map)
         IN  IF ~saveblock1.ok THEN Err(saveblock1.err, <<>>)
             ELSE parse_party_pokemon(saveblock1.val)

\* SaveParser::get_player_name
get_player_name_result(data, map) ==
    LET saveblock2 == extract_saveblock2(data, map)
    IN  IF ~saveblock2.ok THEN Err(saveblock2.err, <<>>)
        ELSE Ok(parse_player_name(saveblock2.val))

\* SaveParser::get_play_time
get_play_time_result(data, map) ==
    LET saveblock2 == extract_saveblock2(data, map)
    IN  IF ~saveblock2.ok THEN Err(saveblock2.err, [hours |-> 0, minutes |-> 0, seconds |-> 0])
        ELSE Ok(parse_play_time(saveblock2.val))

\* SaveParser::get_active_slot
active_slot_of(start) == IF start = 0 THEN 1 ELSE 2

----------------------------------------------------------------------------
(* Bounds and input sets *)

\* The host rewrites at most this many sectors (or lengths) of its buffer.
MaxEdits == 2

\* Physical sectors the host writes: the last of [0,14), the first and the
\* last of [14,32).
Pos == {13, 14, 31}

\* Sector indexes passed to get_sector_info.
Indexes == {31}

\* Buffer lengths the host resizes to.
Lens == {131071, 131073}

\* A trainer block: the name "AB" padded with 0xFF, play time 258:59:07.
NamePayload ==
    (0 :> 187) @@ (1 :> 188) @@ [o \in 2..7 |-> 255] @@
    (14 :> 2) @@ (15 :> 1) @@ (16 :> 59) @@ (17 :> 7)

\* A party block: the count byte and, for every slot below slots, a level
\* byte; the slots in valid have a non-zero personality (odd slots only in
\* its top byte).
PartyPayload(count, slots, valid) ==
    LET rec(slot) == PARTY_OFFSET + slot * POKEMON_SIZE
        pers == {rec(slot) + (IF slot % 2 = 1 THEN 3 ELSE 0) : slot \in valid}
        lvl  == {rec(slot) + LEVEL : slot \in 0..(slots - 1)}
    IN  [o \in {PARTY_COUNT_OFFSET} \cup pers \cup lvl |->
            IF o = PARTY_COUNT_OFFSET THEN count
            ELSE IF o \in pers THEN 1 + ((o - PARTY_OFFSET) \div POKEMON_SIZE)
            ELSE 5 + ((o - PARTY_OFFSET) \div POKEMON_SIZE)]

\* Words whose 32-bit sum wraps: 0xFFFFFFFF first, 0x0001FFFF last.
CarryPayload ==
    [o \in 0..3 |-> 255] @@ (3964 :> 255) @@ (3965 :> 255) @@ (3966 :> 1)

\* The sectors the host writes: logical id, counter, data, and whether the
\* footer carries the right signature and the right checksum.
Kind(id, counter, payload, sig_ok, sum_ok) ==
    [id |-> id, counter |-> counter, payload |-> payload,
     sig_ok |-> sig_ok, sum_ok |-> sum_ok]

KindTrainer == Kind(0, U32(0, 1), NamePayload, TRUE, TRUE)
KindParty == Kind(1, U32(0, 2), PartyPayload(12, 4, {0, 1, 3}), TRUE, TRUE)
KindPartyOver == Kind(1, U32(0, 1), PartyPayload(13, 2, {0, 1}), TRUE, TRUE)
KindCarry == Kind(4, U32(32768, 0), CarryPayload, TRUE, TRUE)
KindBadSum == Kind(0, U32(65535, 65535), NamePayload, TRUE, FALSE)

Kinds == {KindTrainer, KindParty, KindPartyOver, KindCarry, KindBadSum}

\* The 4096 bytes of a sector of kind k: its data region and its footer,
\* laid out as get_sector_info_internal reads them.
SectorBytes(k) ==
    LET data == Buf(SECTOR_DATA_SIZE, k.payload)
        sum  == calculate_sector_checksum(data)
        checksum  == IF k.sum_ok THEN sum ELSE (sum + 1) % 65536
        signature == IF k.sig_ok THEN VANILLA_EMERALD_SIGNATURE
                     ELSE U32(VANILLA_EMERALD_SIGNATURE.hi, VANILLA_EMERALD_SIGNATURE.lo + 1)
        footer == SECTOR_SIZE - FOOTER_SIZE
        blank == CopyInto(Zeroed(SECTOR_SIZE), 0, data)
    IN  write_u32_le(write_u32_le(write_u16_le(write_u16_le(blank,
            footer, k.id), footer + 2, checksum), footer + 4, signature),
            footer + 8, k.counter)

\* The sectors of Kinds, laid out once.
SectorImage == [k \in Kinds |-> SectorBytes(k)]

----------------------------------------------------------------------------
(* State *)

VARIABLES
    input,              \* the host's buffer, passed to load_save_data
    save_data,          \* SaveParser.save_data
    active_slot_start,  \* SaveParser.active_slot_start
    sector_map,         \* SaveParser.sector_map
    panicked,           \* a call on the parser has panicked
    ret,                \* the last call and what it returned
    party,              \* the records the host holds from get_party_pokemon
    arg,                \* inputs of the pure functions
    edits,              \* host edits so far
    sets                \* setter calls so far

vars == <<input, save_data, active_slot_start, sector_map, panicked, ret, party,
          arg, edits, sets>>

parser == <<save_data, active_slot_start, sector_map>>

Ret(op, a, r) == [op |-> op, arg |-> a, ok |-> r.ok, err |-> r.err, val |-> r.val]
NoRet == Ret("none", 0, Ok(0))
NoArg == <<>>

\* SaveParser::new(), and a host buffer of 131072 zero bytes
Init ==
    /\ input = Zeroed(MIN_SAVE_SIZE)
    /\ save_data = EmptyBuf
    /\ active_slot_start = 0
    /\ sector_map = EmptyMap
    /\ panicked = FALSE
    /\ ret = NoRet
    /\ party = <<>>
    /\ arg = NoArg
    /\ edits = 0
    /\ sets = 0

----------------------------------------------------------------------------
(* The host *)

HostWriteSector(p, k) ==
    /\ edits < MaxEdits
    /\ p * SECTOR_SIZE + SECTOR_SIZE <= input.len
    /\ input' = CopyInto(input, p * SECTOR_SIZE, SectorImage[k])
    /\ edits' = edits + 1
    /\ ret' = NoRet
    /\ UNCHANGED <<save_data, active_slot_start, sector_map, panicked, party, arg, sets>>

HostResize(n) ==
    /\ edits < MaxEdits
    /\ n # input.len
    /\ input' = Bytes(n, {o \in input.nz : o < n}, input.at)
    /\ edits' = edits + 1
    /\ ret' = NoRet
    /\ UNCHANGED <<save_data, active_slot_start, sector_map, panicked, party, arg, sets>>

----------------------------------------------------------------------------
(* SaveParser *)

\* Mutant: the image is stored before its length is checked.
load_save_data_m ==
    /\ ~panicked
    /\ save_data' = input
    /\ IF input.len < MIN_SAVE_SIZE
       THEN /\ ret' = Ret("load_save_data", 0, Err("Save file too small", 0))
            /\ UNCHANGED <<active_slot_start, sector_map, panicked>>
       ELSE LET active == determine_active_slot(input) IN
            \/ /\ active.overflow
               /\ panicked' = TRUE
               /\ ret' = Ret("load_save_data", 0, Err("panic: attempt to add with overflow", 0))
               /\ UNCHANGED <<active_slot_start, sector_map>>
            \/ /\ active_slot_start' = active.start
               /\ sector_map' = build_sector_map(input, active.start, sector_map)
               /\ ret' = Ret("load_save_data", 0, Ok(0))
               /\ UNCHANGED panicked
    /\ UNCHANGED <<input, party, arg, edits, sets>>

\* load_save_data(input).  The two u32 sums of get_counter_sum overflow on
\* some images: a build with overflow checks panics there, after save_data
\* was assigned; a build without wraps and goes on.
load_save_data ==
    /\ ~panicked
    /\ IF input.len < MIN_SAVE_SIZE
       THEN /\ ret' = Ret("load_save_data", 0, Err("Save file too small", 0))
            /\ UNCHANGED <<save_data, active_slot_start, sector_map, panicked>>
       ELSE LET active == determine_active_slot(input) IN
            /\ save_data' = input
            /\ \/ /\ active.overflow
                  /\ panicked' = TRUE
                  /\ ret' = Ret("load_save_data", 0, Err("panic: attempt to add with overflow", 0))
                  /\ UNCHANGED <<active_slot_start, sector_map>>
               \/ /\ active_slot_start' = active.start
                  /\ sector_map' = build_sector_map(input, active.start, sector_map)
                  /\ ret' = Ret("load_save_data", 0, Ok(0))
                  /\ UNCHANGED panicked
    /\ UNCHANGED <<input, party, arg, edits, sets>>

parse ==
    /\ ~panicked
    /\ ret' = Ret("parse", 0, parse_result(save_data, active_slot_start, sector_map))
    /\ UNCHANGED <<input, save_data, active_slot_start, sector_map, panicked, party, arg, edits, sets>>

get_party_pokemon ==
    /\ ~panicked
    /\ ret' = Ret("get_party_pokemon", 0, get_party_pokemon_result(save_data, sector_map))
    /\ UNCHANGED <<input, save_data, active_slot_start, sector_map, panicked, party, arg, edits, sets>>

get_player_name ==
    /\ ~panicked
    /\ ret' = Ret("get_player_name", 0, get_player_name_result(save_data, sector_map))
    /\ UNCHANGED <<input, save_data, active_slot_start, sector_map, panicked, party, arg, edits, sets>>

get_play_time ==
    /\ ~panicked
    /\ ret' = Ret("get_play_time", 0, get_play_time_result(save_data, sector_map))
    /\ UNCHANGED <<input, save_data, active_slot_start, sector_map, panicked, party, arg, edits, sets>>

get_sector_info(sector_index) ==
    /\ ~panicked
    /\ ret' = Ret("get_sector_info", sector_index,
                  Ok(get_sector_info_internal(save_data, sector_index)))
    /\ UNCHANGED <<input, save_data, active_slot_start, sector_map, panicked, party, arg, edits, sets>>

get_active_slot ==
    /\ ~panicked
    /\ ret' = Ret("get_active_slot", 0, Ok(active_slot_of(active_slot_start)))
    /\ UNCHANGED <<input, save_data, active_slot_start, sector_map, panicked, party, arg, edits, sets>>

get_valid_sector_count ==
    /\ ~panicked
    /\ ret' = Ret("get_valid_sector_count", 0, Ok(Cardinality(DOMAIN sector_map)))
    /\ UNCHANGED <<input, save_data, active_slot_start, sector_map, panicked, party, arg, edits, sets>>

Next ==
    \/ \E p \in Pos, k \in Kinds : HostWriteSector(p, k)
    \/ \E n \in Lens : HostResize(n)
    \/ load_save_data
    \/ parse
    \/ get_party_pokemon
    \/ get_player_name
    \/ get_play_time
    \/ \E i \in Indexes : get_sector_info(i)
    \/ get_active_slot
    \/ get_valid_sector_count

Spec == Init /\ [][Next]_vars

----------------------------------------------------------------------------
(* Vocabulary of the properties *)

\* An image is loaded: load_save_data got past its length check.
Loaded == save_data.len >= MIN_SAVE_SIZE

Slot1Range == 0..(SLOT2_START - 1)
Slot2Range == SLOT2_START..(NUM_SECTORS - 1)
ActiveRange == IF active_slot_start = 0 THEN Slot1Range ELSE Slot2Range
InactiveRange == IF active_slot_start = 0 THEN Slot2Range ELSE Slot1Range

ValidIn(data, range) == {i \in range : get_sector_info_internal(data, i).valid}

RECURSIVE SumOver(_, _)
SumOver(f, S) ==
    IF S = {} THEN 0
    ELSE LET x == CHOOSE y \in S : TRUE IN f[x] + SumOver(f, S \ {x})

\* The arithmetic sum of the counters of the valid sectors of a range, as the
\* pair <<sum \div 65536, sum % 65536>> (no 32-bit wrap-around).
TrueCounterSum(data, range) ==
    LET V == ValidIn(data, range)
        H == SumOver([i \in V |-> get_sector_info_internal(data, i).counter.hi], V)
        L == SumOver([i \in V |-> get_sector_info_internal(data, i).counter.lo], V)
    IN  <<H + (L \div 65536), L % 65536>>

PairGreater(a, b) == a[1] > b[1] \/ (a[1] = b[1] /\ a[2] > b[2])

\* The data region of physical sector i of an image.
SectorData(data, i) == Slice(data, i * SECTOR_SIZE, i * SECTOR_SIZE + SECTOR_DATA_SIZE)

\* Byte o (below 3968) of logical block B1: it lies in the sector the table
\* maps logical id 1 to, and is 0 without one.
B1Byte(data, map, o) ==
    IF 1 \in DOMAIN map THEN Get(data, map[1] * SECTOR_SIZE + o) ELSE 0

\* The number of leading slots, among the first count, whose four
\* personality bytes are not all 0.
LeadingValid(data, map, count) ==
    LET bad == {s \in 0..(count - 1) :
                    \A j \in 0..3 : B1Byte(data, map, PARTY_OFFSET + s * POKEMON_SIZE + j) = 0}
    IN  IF bad = {} THEN count ELSE First(bad)

----------------------------------------------------------------------------
(* Properties of the parser (specification Spec) *)

\* C1: load_save_data returns the error 'Save file too small' for every
\* buffer shorter than 131072 bytes and returns ok for every buffer of at
\* least 131072 bytes, whatever its contents.
C1_LoadResult ==
    ret.op = "load_save_data" =>
        IF input.len < MIN_SAVE_SIZE
        THEN ~ret.ok /\ ret.err = "Save file too small"
        ELSE ret.ok

\* C4: after a successful load the active range is [14,32) exactly when the
\* arithmetic sum of the counters of the valid sectors of [14,32) is greater
\* than that of the valid sectors of [0,14), and [0,14) otherwise.
C4_ActiveRange ==
    (ret.op = "load_save_data" /\ ret.ok) =>
        /\ active_slot_start \in {0, SLOT2_START}
        /\ active_slot_start = SLOT2_START
             <=> PairGreater(TrueCounterSum(save_data, Slot2Range),
                             TrueCounterSum(save_data, Slot1Range))

\* C5: on a loaded image extract_saveblock1 never fails and returns 15872
\* bytes; for each logical id k in 1..4 the bytes [(k-1)*3968, k*3968) are the
\* data region of the sector the table maps k to, and all zero when k is not
\* in the table; table entries with other ids do not change the result.
C5_ExtractB1 ==
    (ret.op \in {"get_party_pokemon", "parse"} /\ Loaded) =>
        LET b1 == extract_saveblock1(save_data, sector_map)
            inner == [k \in DOMAIN sector_map \cap 1..4 |-> sector_map[k]]
        IN  /\ b1.ok
            /\ b1.val.len = 15872
            /\ \A k \in 1..4 :
                 Slice(b1.val, (k - 1) * 3968, k * 3968) =
                    IF k \in DOMAIN sector_map
                    THEN SectorData(save_data, sector_map[k])
                    ELSE Zeroed(3968)
            /\ extract_saveblock1(save_data, inner) = b1

\* C5 witness: extract_saveblock1 has run on a table that holds the ids 0 and
\* 1 (one id outside 1..4, one inside) and lacks the ids 2, 3 and 4.
C5_Witness ==
    /\ ret.op = "get_party_pokemon"
    /\ Loaded
    /\ DOMAIN sector_map = {0, 1}

\* C6: after a successful load, parse, get_player_name and get_play_time fail
\* with 'SaveBlock2 sector (ID 0) not found' exactly when the active range
\* holds no valid sector with logical id 0, and succeed otherwise; an image
\* without any valid sector loads with an empty table and active slot 1.
C6_MissingBlock ==
    /\ (ret.op \in {"parse", "get_player_name", "get_play_time"} /\ Loaded) =>
          LET has0 == \E i \in ValidIn(save_data, ActiveRange) :
                          get_sector_info_internal(save_data, i).id = 0
          IN  /\ ret.ok <=> has0
              /\ ~ret.ok => ret.err = "SaveBlock2 sector (ID 0) not found"
    /\ (ret.op = "load_save_data" /\ input.len >= MIN_SAVE_SIZE
            /\ ValidIn(input, 0..(NUM_SECTORS - 1)) = {}) =>
          /\ ret.ok
          /\ sector_map = EmptyMap
          /\ active_slot_of(active_slot_start) = 1
          /\ ~parse_result(save_data, active_slot_start, sector_map).ok

\* C6 witness: parse has failed on a loaded image whose only valid sector with
\* logical id 0 lies in the range that is not active.
C6_Witness ==
    /\ ret.op = "parse"
    /\ Loaded
    /\ ~ret.ok
    /\ \E i \in ValidIn(save_data, InactiveRange) :
          get_sector_info_internal(save_data, i).id = 0

\* C7: whenever parse succeeds, the active_slot of the SaveData it returns is
\* 1 or 2 and equals what get_active_slot returns on the same parser.
C7_ParseActiveSlot ==
    (ret.op = "parse" /\ ret.ok) =>
        /\ ret.val.active_slot \in {1, 2}
        /\ ret.val.active_slot = active_slot_of(active_slot_start)

\* C8: on a loaded image get_party_pokemon fails with 'Invalid party count'
\* when the count byte at B1 offset 0x234 exceeds 12; otherwise it succeeds
\* and returns, in slot order, exactly the records of the longest prefix of
\* the slots 0..count-1 whose personality is non-zero.
C8_PartyPrefix ==
    (ret.op = "get_party_pokemon" /\ Loaded) =>
        LET count == B1Byte(save_data, sector_map, 564)
            n == LeadingValid(save_data, sector_map, count)
        IN  IF count > 12
            THEN ~ret.ok /\ ret.err = "Invalid party count: " \o ToString(count)
            ELSE /\ ret.ok
                 /\ Len(ret.val) = n
                 /\ n <= count
                 /\ \A s \in 0..(n - 1) :
                      ret.val[s + 1].raw_bytes =
                        Slice(save_data, sector_map[1] * SECTOR_SIZE + 568 + s * 100,
                              sector_map[1] * SECTOR_SIZE + 568 + s * 100 + 100)

\* C8 witness: the count byte is 12, slots 0 and 1 are valid, slot 2 is not,
\* slot 3 is again, and get_party_pokemon returned two records.
C8_Witness ==
    /\ ret.op = "get_party_pokemon"
    /\ Loaded
    /\ ret.ok
    /\ B1Byte(save_data, sector_map, 564) = 12
    /\ Len(ret.val) = 2
    /\ \E j \in 0..3 : B1Byte(save_data, sector_map, 568 + 300 + j) # 0

----------------------------------------------------------------------------
(* Sector validation (specification SpecSector): the host hands over an     *)
(* image with one written sector, flips bits of its data region, and asks   *)
(* for the sector's info.                                                   *)

\* The host flips at most this many bits of its buffer.
MaxFlips == 1

\* Data words: no bit, the lowest bit, the low half, the top bit, every bit.
Words == {U32(0, 0), U32(0, 1), U32(0, 65535), U32(32768, 0), U32(65535, 65535)}

\* The sector positions of the images, the indexes asked for (32 lies past
\* the image), and the bytes and bits the host flips.
SectorPos == {0, 31}
SectorIndexes == {0, 31, 32}
FlipPos == {31}
FlipAt == {3, 3964}
FlipBits == {0, 7}

\* A data region whose first word is w0 and whose last word is w1.
WordPayload(w0, w1) ==
    (0 :> w0.lo % 256) @@ (1 :> w0.lo \div 256) @@ (2 :> w0.hi % 256) @@ (3 :> w0.hi \div 256) @@
    (3964 :> w1.lo % 256) @@ (3965 :> w1.lo \div 256) @@
    (3966 :> w1.hi % 256) @@ (3967 :> w1.hi \div 256)

\* Sectors with id 0x0102 and counter 0x01020304, with and without the right
\* signature and the right checksum.
WordKinds ==
    {Kind(258, U32(258, 772), WordPayload(w0, w1), sig_ok, sum_ok) :
        w0 \in Words, w1 \in Words, sig_ok \in BOOLEAN, sum_ok \in BOOLEAN}

SectorImages ==
    {CopyInto(Zeroed(MIN_SAVE_SIZE), p * SECTOR_SIZE, SectorBytes(k)) :
        p \in SectorPos, k \in WordKinds}

\* a ^ (1 << bit) on a byte
FlipBit(byte, bit) ==
    IF (byte \div (2 ^ bit)) % 2 = 1 THEN byte - 2 ^ bit ELSE byte + 2 ^ bit

\* bytes with one bit of bytes[o] flipped
FlipBitAt(bytes, o, bit) == Put(bytes, o, FlipBit(Get(bytes, o), bit))

InitSector ==
    /\ input \in SectorImages
    /\ save_data = EmptyBuf
    /\ active_slot_start = 0
    /\ sector_map = EmptyMap
    /\ panicked = FALSE
    /\ ret = NoRet
    /\ party = <<>>
    /\ arg = NoArg
    /\ edits = 0
    /\ sets = 0

HostFlipBit(p, o, bit) ==
    /\ edits < MaxFlips
    /\ input' = FlipBitAt(input, p * SECTOR_SIZE + o, bit)
    /\ edits' = edits + 1
    /\ ret' = NoRet
    /\ UNCHANGED <<save_data, active_slot_start, sector_map, panicked, party, arg, sets>>

NextSector ==
    \/ \E p \in FlipPos, o \in FlipAt, bit \in FlipBits : HostFlipBit(p, o, bit)
    \/ load_save_data
    \/ \E i \in SectorIndexes : get_sector_info(i)

SpecSector == InitSector /\ [][NextSector]_vars

\* The 16-bit footer field at offset o of the footer of physical sector i,
\* read from the image byte by byte.
FooterField(data, i, o) ==
    Get(data, i * 4096 + 4084 + o) + 256 * Get(data, i * 4096 + 4084 + o + 1)

\* The arithmetic sum of the little-endian words of [i*4096, i*4096+3968),
\* reduced modulo 2^32 and folded: ((sum >> 16) + (sum & 0xFFFF)) mod 2^16.
FoldedWordSum(data, i) ==
    LET base == i * 4096
        W == {(o - base) \div 4 : o \in {x \in data.nz : base <= x /\ x < base + 3968}}
        L == SumOver([k \in W |-> Get(data, base + 4 * k) + 256 * Get(data, base + 4 * k + 1)], W)
        H == SumOver([k \in W |-> Get(data, base + 4 * k + 2) + 256 * Get(data, base + 4 * k + 3)], W)
        lo == L % 65536
        hi == (H + (L \div 65536)) % 65536
    IN  (hi + lo) % 65536

\* The bytes of a data region a flip is tried on: its first word, a byte of
\* its second (zero) word, and its last word.
TriedOffsets == (0..4) \cup (3964..3967)

\* Physical sector i of data is one flipped data bit away from a valid one.
NearValid(data, i) ==
    \E o \in TriedOffsets, bit \in 0..7 :
        get_sector_info_internal(FlipBitAt(data, i * 4096 + o, bit), i).valid

\* C2: for a loaded image and a physical index in 0..31, get_sector_info
\* reports valid exactly when the footer's signature is 0x08012025 and the
\* footer's checksum equals the folded 32-bit word sum of the data region;
\* it reports the footer's id, checksum and counter whether or not the
\* signature matches.
C2_SectorValid ==
    (ret.op = "get_sector_info" /\ Loaded /\ ret.arg \in 0..31) =>
        LET i == ret.arg
            signature_ok == /\ FooterField(save_data, i, 4) = 8229    \* 0x2025
                            /\ FooterField(save_data, i, 6) = 2049    \* 0x0801
        IN  /\ ret.val.valid <=>
                (signature_ok /\ FooterField(save_data, i, 2) = FoldedWordSum(save_data, i))
            /\ ret.val.id = FooterField(save_data, i, 0)
            /\ ret.val.checksum = FooterField(save_data, i, 2)
            /\ ret.val.counter = U32(FooterField(save_data, i, 10), FooterField(save_data, i, 8))
            /\ ~signature_ok => ~ret.val.valid

\* C2 witness: get_sector_info has answered for a sector whose checksum is
\* right and whose signature is wrong: not valid, id 0x0102 and counter
\* 0x01020304 reported.
C2_Witness ==
    /\ ret.op = "get_sector_info"
    /\ Loaded
    /\ ret.arg = 31
    /\ FooterField(save_data, 31, 4) # 8229
    /\ FooterField(save_data, 31, 2) = FoldedWordSum(save_data, 31)
    /\ FoldedWordSum(save_data, 31) # 0
    /\ ~ret.val.valid
    /\ ret.val.id = 258
    /\ ret.val.counter = U32(258, 772)

\* C3: when get_sector_info reports a sector valid, the image with any single
\* bit of that sector's data region flipped (footer unchanged) has the sector
\* not valid; and what get_sector_info reports for a sector that is one
\* flipped data bit away from a valid one is not valid.
C3_FlipInvalidates ==
    (ret.op = "get_sector_info" /\ Loaded /\ ret.arg \in 0..31) =>
        /\ ret.val.valid =>
             \A o \in TriedOffsets, bit \in 0..7 :
                ~get_sector_info_internal(
                    FlipBitAt(save_data, ret.arg * 4096 + o, bit), ret.arg).valid
        /\ NearValid(save_data, ret.arg) => ~ret.val.valid

\* C3 witness: the host flipped the top bit of the first data word of the
\* valid sector 31, loaded the image, and get_sector_info(31) answered not
\* valid.
C3_Witness ==
    /\ ret.op = "get_sector_info"
    /\ Loaded
    /\ ret.arg = 31
    /\ edits = 1
    /\ ~ret.val.valid
    /\ get_sector_info_internal(FlipBitAt(save_data, 31 * 4096 + 3, 7), 31).valid

----------------------------------------------------------------------------
(* Text codec (specification SpecCodec): a string and a length are drawn,   *)
(* encoded, and the bytes decoded.                                          *)

\* The longest string drawn, and the most padding bytes after it.
MaxStrLen == 3
MaxPad == 3

\* Chars drawn: a letter of each case, the space (bytes 0x00 and 0x50), the
\* NUL (byte 0xFF), the double quote (bytes 0x3A and 0x3B), and a char that
\* is not in the table.
Alphabet == {"A", "z", " ", "NUL", "dquote", "#"}

Strings == UNION {[1..n -> Alphabet] : n \in 0..MaxStrLen}

InitCodec ==
    /\ arg \in {[text |-> s, length |-> n] : s \in Strings, n \in 0..(MaxStrLen + MaxPad)}
    /\ input = EmptyBuf
    /\ save_data = EmptyBuf
    /\ active_slot_start = 0
    /\ sector_map = EmptyMap
    /\ panicked = FALSE
    /\ ret = NoRet
    /\ party = <<>>
    /\ edits = 0
    /\ sets = 0

\* the host calls gba_string_to_bytes(arg.text, arg.length)
call_gba_string_to_bytes ==
    /\ ret' = Ret("gba_string_to_bytes", arg, Ok(gba_string_to_bytes(arg.text, arg.length)))
    /\ UNCHANGED <<input, save_data, active_slot_start, sector_map, panicked, party, arg, edits, sets>>

\* the host calls bytes_to_gba_string on the bytes it got
call_bytes_to_gba_string ==
    /\ ret.op = "gba_string_to_bytes"
    /\ ret' = Ret("bytes_to_gba_string", ret.val, Ok(bytes_to_gba_string(ret.val)))
    /\ UNCHANGED <<input, save_data, active_slot_start, sector_map, panicked, party, arg, edits, sets>>

NextCodec ==
    \/ call_gba_string_to_bytes
    \/ call_bytes_to_gba_string

SpecCodec == InitCodec /\ [][NextCodec]_vars

\* Every char of s is a char of GBA_CHAR_MAP.
InTable(s) == \A i \in 1..Len(s) : find_by_char(s[i]) # 0

\* The bytes decoded are the encoding of arg.text in arg.length bytes, with
\* room for all of it.
RoundTripDone ==
    /\ ret.op = "bytes_to_gba_string"
    /\ InTable(arg.text)
    /\ arg.length >= Len(arg.text)

\* C9 as stated: for every string s of chars of the table and every
\* n >= len(s), bytes_to_gba_string(gba_string_to_bytes(s, n)) = s.
C9_RoundTrip == RoundTripDone => ret.val = arg.text

\* C9, amended: for every string s of chars of the table other than '\0'
\* that neither starts nor ends with a space, and every n >= len(s),
\* bytes_to_gba_string(gba_string_to_bytes(s, n)) = s.
C9_RoundTripTrimmed ==
    (/\ RoundTripDone
     /\ \A i \in 1..Len(arg.text) : arg.text[i] # "NUL"
     /\ arg.text # <<>> => (arg.text[1] # " " /\ arg.text[Len(arg.text)] # " "))
        => ret.val = arg.text

\* C9 witness: the string A, space, double quote was encoded in 6 bytes (three
\* of padding) and decoded to itself.
C9_Witness ==
    /\ ret.op = "bytes_to_gba_string"
    /\ arg.text = <<"A", " ", "dquote">>
    /\ arg.length = 6
    /\ ret.arg = Buf(6, (0 :> 187) @@ (1 :> 0) @@ (2 :> 58) @@ [o \in 3..5 |-> 255])
    /\ ret.val = arg.text

----------------------------------------------------------------------------
(* Extracted records (specification SpecRecords): the host loads an image   *)
(* with a party of two, keeps the records get_party_pokemon returns, and     *)
(* calls their setters.                                                     *)

\* The host calls at most this many setters.
MaxSetterCalls == 2

\* Slot 2 active: the trainer block in sector 31, the party block in sector 14.
RecordImage ==
    CopyInto(CopyInto(Zeroed(MIN_SAVE_SIZE), 14 * SECTOR_SIZE, SectorImage[KindParty]),
             31 * SECTOR_SIZE, SectorImage[KindTrainer])

\* Values passed to the setters.
SetU32 == {ZeroU32, U32(258, 772)}
SetU16 == {258}
SetU8 == {100}

InitRecords ==
    /\ input = RecordImage
    /\ save_data = EmptyBuf
    /\ active_slot_start = 0
    /\ sector_map = EmptyMap
    /\ panicked = FALSE
    /\ ret = NoRet
    /\ party = <<>>
    /\ arg = NoArg
    /\ edits = 0
    /\ sets = 0

\* the host keeps the Vec<Pokemon> that get_party_pokemon returned
HostKeepParty ==
    /\ ret.op = "get_party_pokemon"
    /\ ret.ok
    /\ party' = ret.val
    /\ UNCHANGED <<input, save_data, active_slot_start, sector_map, panicked, ret, arg, edits, sets>>

\* Mutant: the records share one buffer.
store_m(records, r, raw_bytes) == [q \in 1..Len(records) |-> [raw_bytes |-> raw_bytes]]

\* A Pokemon owns its raw_bytes: a write through &mut self reaches the bytes
\* of that record alone.
store(records, r, raw_bytes) == [records EXCEPT ![r] = [raw_bytes |-> raw_bytes]]

\* A setter call on the r-th record the host holds, leaving it with raw_bytes.
Setter(op, r, raw_bytes) ==
    /\ sets < MaxSetterCalls
    /\ r \in 1..Len(party)
    /\ party' = store(party, r, raw_bytes)
    /\ sets' = sets + 1
    /\ ret' = Ret(op, r, Ok(0))
    /\ UNCHANGED <<input, save_data, active_slot_start, sector_map, panicked, arg, edits>>

set_personality(r, value) ==
    /\ r \in 1..Len(party)
    /\ Setter("set_personality", r, write_u32_le(party[r].raw_bytes, PERSONALITY, value))

set_ot_id(r, value) ==
    /\ r \in 1..Len(party)
    /\ Setter("set_ot_id", r, write_u32_le(party[r].raw_bytes, OT_ID, value))

set_current_hp(r, value) ==
    /\ r \in 1..Len(party)
    /\ Setter("set_current_hp", r, write_u16_le(party[r].raw_bytes, CURRENT_HP, value))

set_max_hp(r, value) ==
    /\ r \in 1..Len(party)
    /\ Setter("set_max_hp", r, write_u16_le(party[r].raw_bytes, MAX_HP, value))

set_attack(r, value) ==
    /\ r \in 1..Len(party)
    /\ Setter("set_attack", r, write_u16_le(party[r].raw_bytes, ATTACK, value))

set_defense(r, value) ==
    /\ r \in 1..Len(party)
    /\ Setter("set_defense", r, write_u16_le(party[r].raw_bytes, DEFENSE, value))

set_speed(r, value) ==
    /\ r \in 1..Len(party)
    /\ Setter("set_speed", r, write_u16_le(party[r].raw_bytes, SPEED, value))

set_sp_attack(r, value) ==
    /\ r \in 1..Len(party)
    /\ Setter("set_sp_attack", r, write_u16_le(party[r].raw_bytes, SP_ATTACK, value))

set_sp_defense(r, value) ==
    /\ r \in 1..Len(party)
    /\ Setter("set_sp_defense", r, write_u16_le(party[r].raw_bytes, SP_DEFENSE, value))

set_level(r, value) ==
    /\ r \in 1..Len(party)
    /\ Setter("set_level", r,
              IF LEVEL < party[r].raw_bytes.len
              THEN Put(party[r].raw_bytes, LEVEL, value) ELSE party[r].raw_bytes)

set_status(r, value) ==
    /\ r \in 1..Len(party)
    /\ Setter("set_status", r,
              IF STATUS < party[r].raw_bytes.len
              THEN Put(party[r].raw_bytes, STATUS, value) ELSE party[r].raw_bytes)

NextRecords ==
    \/ load_save_data
    \/ parse
    \/ get_party_pokemon
    \/ get_active_slot
    \/ \E i \in Indexes : get_sector_info(i)
    \/ HostKeepParty
    \/ \E r \in 1..2, value \in SetU32 : set_personality(r, value)
    \/ \E r \in 1..2, value \in SetU32 : set_ot_id(r, value)
    \/ \E r \in 1..2, value \in SetU16 : set_current_hp(r, value)
    \/ \E r \in 1..2, value \in SetU16 : set_max_hp(r, value)
    \/ \E r \in 1..2, value \in SetU16 : set_attack(r, value)
    \/ \E r \in 1..2, value \in SetU16 : set_defense(r, value)
    \/ \E r \in 1..2, value \in SetU16 : set_speed(r, value)
    \/ \E r \in 1..2, value \in SetU16 : set_sp_attack(r, value)
    \/ \E r \in 1..2, value \in SetU16 : set_sp_defense(r, value)
    \/ \E r \in 1..2, value \in SetU8 : set_level(r, value)
    \/ \E r \in 1..2, value \in SetU8 : set_status(r, value)

SpecRecords == InitRecords /\ [][NextRecords]_vars

\* C10: a setter call on a record obtained from get_party_pokemon leaves the
\* parser's fields as they were, and with them what get_sector_info,
\* get_active_slot, parse and get_party_pokemon return, and leaves every
\* other record the host holds as it was.
C10_SettersPrivate ==
    [][sets' # sets =>
        /\ save_data' = save_data
        /\ active_slot_start' = active_slot_start
        /\ sector_map' = sector_map
        /\ active_slot_of(active_slot_start') = active_slot_of(active_slot_start)
        /\ \A i \in Indexes :
             get_sector_info_internal(save_data', i) = get_sector_info_internal(save_data, i)
        /\ parse_result(save_data', active_slot_start', sector_map')
             = parse_result(save_data, active_slot_start, sector_map)
        /\ get_party_pokemon_result(save_data', sector_map')
             = get_party_pokemon_result(save_data, sector_map)
        /\ Len(party') = Len(party)
        /\ \A q \in 1..Len(party) : q # ret'.arg => party'[q] = party[q]
    ]_<<sets, party>>

\* C10 witness: after two setter calls, one of which zeroed the personality
\* of the first record the host holds, get_party_pokemon still returns two
\* records, the first with its personality as in the image and the second
\* equal to the host's.
C10_Witness ==
    /\ sets = 2
    /\ ret.op = "get_party_pokemon"
    /\ ret.ok
    /\ Len(ret.val) = 2
    /\ Len(party) = 2
    /\ personality(party[1]) = ZeroU32
    /\ personality(ret.val[1]) = U32(0, 1)
    /\ party[2] = ret.val[2]

----------------------------------------------------------------------------
(* utils.rs, pokemon.rs: derived traits (specification SpecStats): the      *)
(* inputs of one function are drawn and the function is called.             *)

\* types.rs NATURES, in order
NATURES == <<
    "Hardy", "Lonely", "Brave", "Adamant", "Naughty",
    "Bold", "Docile", "Relaxed", "Impish", "Lax",
    "Timid", "Hasty", "Serious", "Jolly", "Naive",
    "Modest", "Mild", "Quiet", "Bashful", "Rash",
    "Calm", "Gentle", "Sassy", "Careful", "Quirky" >>

\* The arms of the match of get_nature_modifier: nature, increased stat,
\* decreased stat.
nature_arms == <<
    <<"Lonely", 1, 2>>, <<"Brave", 1, 3>>, <<"Adamant", 1, 4>>, <<"Naughty", 1, 5>>,
    <<"Bold", 2, 1>>, <<"Relaxed", 2, 3>>, <<"Impish", 2, 4>>, <<"Lax", 2, 5>>,
    <<"Timid", 3, 1>>, <<"Hasty", 3, 2>>, <<"Jolly", 3, 4>>, <<"Naive", 3, 5>>,
    <<"Modest", 4, 1>>, <<"Mild", 4, 2>>, <<"Quiet", 4, 3>>, <<"Rash", 4, 5>>,
    <<"Calm", 5, 1>>, <<"Gentle", 5, 2>>, <<"Sassy", 5, 3>>, <<"Careful", 5, 4>> >>

\* match nature { .. , _ => (0, 0) }
nature_effects(nature) ==
    LET hit == {i \in 1..Len(nature_arms) : nature_arms[i][1] = nature}
    IN  IF hit = {} THEN <<0, 0>>
        ELSE <<nature_arms[First(hit)][2], nature_arms[First(hit)][3]>>

\* get_nature_modifier; the f32 results 1.1, 0.9 and 1.0 are given in tenths
get_nature_modifier(nature, stat_index) ==
    IF stat_index = nature_effects(nature)[1] THEN 11
    ELSE IF stat_index = nature_effects(nature)[2] THEN 9
    ELSE 10

\* calculate_hp_stat: u32 arithmetic (at most (2*65535 + 255 + 63) * 255, no
\* overflow), then `as u16`
calculate_hp_stat(base, iv, ev, level) ==
    (((((2 * base + iv + (ev \div 4)) * level) \div 100) + level + 10)) % 65536

\* a ^ b on u16
RECURSIVE xor16(_, _)
xor16(a, b) ==
    IF a = 0 THEN b
    ELSE IF b = 0 THEN a
    ELSE (((a % 2) + (b % 2)) % 2) + 2 * xor16(a \div 2, b \div 2)

get_shiny_value(personality_value, ot_id_value) ==
    LET pid_high == personality_value.hi
        pid_low  == personality_value.lo
        ot_high  == ot_id_value.hi
        ot_low   == ot_id_value.lo
    IN  xor16(xor16(xor16(pid_high, pid_low), ot_high), ot_low)

\* Mutant: the comparison is <= 8.
is_pokemon_shiny_m(personality_value, ot_id_value) ==
    get_shiny_value(personality_value, ot_id_value) <= 8

is_pokemon_shiny(personality_value, ot_id_value) ==
    LET shiny_value == get_shiny_value(personality_value, ot_id_value)
    IN  shiny_value < 8

\* Pokemon::ot_id
ot_id(p) == read_u32_le(p.raw_bytes, OT_ID)

\* Pokemon::is_shiny
is_shiny(p) == is_pokemon_shiny(personality(p), ot_id(p))

\* Natures passed: the 25 of NATURES and a name that is none of them.
NatureNames == {NATURES[i] : i \in 1..Len(NATURES)} \cup {"Unknown"}

\* Stat indexes passed: 0 (HP) to 5, and 6.
StatIndexes == 0..6

\* Inputs of calculate_hp_stat.
HpBases == {0, 1, 45, 255, 12838, 65535}
HpIvs == {0, 31, 255}
HpEvs == {0, 3, 4, 255}
HpLevels == {0, 1, 5, 100, 255}

\* Personality and trainer id values.
ShinyWords == {U32(0, 0), U32(4660, 22136), U32(0, 7), U32(0, 8), U32(32768, 0),
               U32(65535, 65528), U32(65535, 65535)}

StatsInputs ==
    {[fn |-> "nature", nature |-> n, stat_index |-> i] : n \in NatureNames, i \in StatIndexes}
    \cup {[fn |-> "hp", base |-> b, iv |-> i, ev |-> e, level |-> l] :
            b \in HpBases, i \in HpIvs, e \in HpEvs, l \in HpLevels}
    \cup {[fn |-> "shiny", personality |-> x, ot_id |-> y] : x \in ShinyWords, y \in ShinyWords}

InitStats ==
    /\ arg \in StatsInputs
    /\ input = EmptyBuf
    /\ save_data = EmptyBuf
    /\ active_slot_start = 0
    /\ sector_map = EmptyMap
    /\ panicked = FALSE
    /\ ret = NoRet
    /\ party = <<>>
    /\ edits = 0
    /\ sets = 0

call_get_nature_modifier ==
    /\ arg.fn = "nature"
    /\ ret' = Ret("get_nature_modifier", 0, Ok(get_nature_modifier(arg.nature, arg.stat_index)))
    /\ UNCHANGED <<input, save_data, active_slot_start, sector_map, panicked, party, arg, edits, sets>>

call_calculate_hp_stat ==
    /\ arg.fn = "hp"
    /\ ret' = Ret("calculate_hp_stat", 0, Ok(calculate_hp_stat(arg.base, arg.iv, arg.ev, arg.level)))
    /\ UNCHANGED <<input, save_data, active_slot_start, sector_map, panicked, party, arg, edits, sets>>

call_get_shiny_value ==
    /\ arg.fn = "shiny"
    /\ ret' = Ret("get_shiny_value", 0, Ok(get_shiny_value(arg.personality, arg.ot_id)))
    /\ UNCHANGED <<input, save_data, active_slot_start, sector_map, panicked, party, arg, edits, sets>>

call_is_pokemon_shiny ==
    /\ arg.fn = "shiny"
    /\ ret' = Ret("is_pokemon_shiny", 0, Ok(is_pokemon_shiny(arg.personality, arg.ot_id)))
    /\ UNCHANGED <<input, save_data, active_slot_start, sector_map, panicked, party, arg, edits, sets>>

\* Pokemon::is_shiny on a record of 100 bytes holding the two values
call_is_shiny ==
    /\ arg.fn = "shiny"
    /\ LET raw_bytes == write_u32_le(write_u32_le(Zeroed(POKEMON_SIZE),
                            PERSONALITY, arg.personality), OT_ID, arg.ot_id)
       IN  ret' = Ret("is_shiny", 0, Ok(is_shiny(Pokemon_new(raw_bytes).val)))
    /\ UNCHANGED <<input, save_data, active_slot_start, sector_map, panicked, party, arg, edits, sets>>

NextStats ==
    \/ call_get_nature_modifier
    \/ call_calculate_hp_stat
    \/ call_get_shiny_value
    \/ call_is_pokemon_shiny
    \/ call_is_shiny

SpecStats == InitStats /\ [][NextStats]_vars

\* The place of a nature in NATURES, from 0; 25 for a name that is not there.
NatureIndex(nature) ==
    LET hit == {i \in 1..Len(NATURES) : NATURES[i] = nature}
    IN  IF hit = {} THEN 25 ELSE First(hit) - 1

\* The stat index a nature boosts and the one it lowers: the natures are
\* laid out five to a row by boosted stat and, within a row, by lowered
\* stat, over Attack (1), Defense (2), Speed (3), Sp. Attack (4), Sp.
\* Defense (5); a nature that would boost and lower the same stat is neutral.
Boosted(nature) == 1 + (NatureIndex(nature) \div 5)
Lowered(nature) == 1 + (NatureIndex(nature) % 5)
Neutral(nature) == NatureIndex(nature) = 25 \/ Boosted(nature) = Lowered(nature)

\* C11: get_nature_modifier returns 1.1 exactly when the stat index is the
\* nature's boosted stat, 0.9 exactly when it is its lowered stat, and 1.0
\* otherwise; for the five neutral natures it returns 1.0 for every stat
\* index 0..5, index 0 (HP) included.
C11_NatureModifier ==
    (ret.op = "get_nature_modifier" /\ arg.nature # "Unknown" /\ arg.stat_index \in 0..5) =>
        IF Neutral(arg.nature) THEN ret.val = 10
        ELSE /\ ret.val = 11 <=> arg.stat_index = Boosted(arg.nature)
             /\ ret.val = 9 <=> arg.stat_index = Lowered(arg.nature)
             /\ ret.val \in {9, 10, 11}

\* C12: calculate_hp_stat(base, iv, ev, level) equals
\* floor((2*base + iv + floor(ev/4)) * level / 100) + level + 10 for every
\* base in 0..65535 and iv, ev, level in 0..255: the 16-bit value returned is
\* never a truncation of a larger true result.
C12_HpStat ==
    ret.op = "calculate_hp_stat" =>
        ret.val = (((2 * arg.base + arg.iv + (arg.ev \div 4)) * arg.level) \div 100)
                    + arg.level + 10

\* The set of the positions of the 1 bits of a 16-bit value, and back.
BitsOf(x) == {i \in 0..15 : (x \div (2 ^ i)) % 2 = 1}
OfBits(S) == SumOver([i \in S |-> 2 ^ i], S)

\* The XOR of the four 16-bit halves: the bits set in an odd number of them.
Fold(personality_value, ot_id_value) ==
    LET halves == <<personality_value.hi, personality_value.lo,
                    ot_id_value.hi, ot_id_value.lo>>
    IN  OfBits({i \in 0..15 : Cardinality({h \in 1..4 : i \in BitsOf(halves[h])}) % 2 = 1})

\* C13: get_shiny_value returns the XOR of the four 16-bit halves of
\* personality and otId; is_pokemon_shiny, and Pokemon::is_shiny on a record
\* holding the two values, are true exactly when that fold is below 8;
\* (0, 0) folds to 0 and (0x12345678, 0) to 0x444C.
C13_Shiny ==
    /\ ret.op = "get_shiny_value" =>
          /\ ret.val = Fold(arg.personality, arg.ot_id)
          /\ (arg.personality = U32(0, 0) /\ arg.ot_id = U32(0, 0)) => ret.val = 0
          /\ (arg.personality = U32(4660, 22136) /\ arg.ot_id = U32(0, 0)) => ret.val = 17484
    /\ ret.op \in {"is_pokemon_shiny", "is_shiny"} =>
          (ret.val <=> Fold(arg.personality, arg.ot_id) < 8)

\* C13 witness: Pokemon::is_shiny answered true for a record whose four
\* halves are 0xFFFF, 0xFFF8, 0 and 7, which fold to 0.
C13_Witness ==
    /\ ret.op = "is_shiny"
    /\ arg.personality = U32(65535, 65528)
    /\ arg.ot_id = U32(0, 7)
    /\ ret.val = TRUE

----------------------------------------------------------------------------
(* The sector table after a load (specification Spec) *)

\* C14: after a successful load, get_valid_sector_count returns the number
\* of physical sectors of the active range that get_sector_info reports
\* valid, sectors sharing a logical id counted each.
C14_ValidSectorCount ==
    (ret.op = "get_valid_sector_count" /\ Loaded)
        => ret.val = Cardinality(ValidIn(save_data, ActiveRange))

\* The valid sectors of the active range that carry logical id.
Carriers(id) ==
    {q \in ValidIn(save_data, ActiveRange) : get_sector_info_internal(save_data, q).id = id}

\* C15: after every successful load, each table entry id -> p has p in the
\* active range, sector p valid with that id, and p the greatest physical
\* index among the valid sectors of the active range with that id; and the
\* table holds exactly the ids some valid sector of the active range carries.
C15_LastWriteWins ==
    (ret.op = "load_save_data" /\ ret.ok) =>
        /\ \A id \in DOMAIN sector_map :
              /\ sector_map[id] \in ActiveRange
              /\ sector_map[id] \in Carriers(id)
              /\ \A q \in Carriers(id) : q <= sector_map[id]
        /\ \A q \in ValidIn(save_data, ActiveRange) :
              get_sector_info_internal(save_data, q).id \in DOMAIN sector_map

\* Two valid sectors of the active range carry id 1; the later one has the
\* lower counter and is the one in the table.
C15_Witness ==
    /\ ret.op = "load_save_data"
    /\ ret.ok
    /\ Carriers(1) = {14, 31}
    /\ u32_gt(get_sector_info_internal(save_data, 14).counter,
              get_sector_info_internal(save_data, 31).counter)
    /\ sector_map[1] = 31

----------------------------------------------------------------------------
(* One parser loading one image after another (specification SpecReload) *)

MaxSwaps == 2

\* Slot 1 active: the party block in sector 13, a block of id 4 in sector 12.
ImageSlot1 ==
    CopyInto(CopyInto(Zeroed(MIN_SAVE_SIZE), 13 * SECTOR_SIZE, SectorImage[KindParty]),
             12 * SECTOR_SIZE, SectorImage[KindCarry])

\* Slot 2 active: only a party block, with a party count of 13, in sector 31.
ImageOver == CopyInto(Zeroed(MIN_SAVE_SIZE), 31 * SECTOR_SIZE, SectorImage[KindPartyOver])

\* The buffers the host passes: no valid sector, slot 1, slot 2, a party
\* count out of range, and a buffer one byte too short.
ReloadImages ==
    {Zeroed(MIN_SAVE_SIZE), ImageSlot1, RecordImage, ImageOver, Zeroed(MIN_SAVE_SIZE - 1)}

ReloadIndexes == {12, 31}

\* What the parser holds, as the host can observe it before replacing its
\* buffer.
Snapshot ==
    [save_data |-> save_data, active_slot_start |-> active_slot_start,
     sector_map |-> sector_map]

\* SaveParser::new(), and any of the host's buffers
InitReload ==
    /\ input \in ReloadImages
    /\ save_data = EmptyBuf
    /\ active_slot_start = 0
    /\ sector_map = EmptyMap
    /\ panicked = FALSE
    /\ ret = NoRet
    /\ party = <<>>
    /\ arg = Snapshot
    /\ edits = 0
    /\ sets = 0

\* the host replaces its buffer by another image
HostSwapImage(img) ==
    /\ edits < MaxSwaps
    /\ img # input
    /\ input' = img
    /\ arg' = Snapshot
    /\ edits' = edits + 1
    /\ ret' = NoRet
    /\ UNCHANGED <<save_data, active_slot_start, sector_map, panicked, party, sets>>

NextReload ==
    \/ \E img \in ReloadImages : HostSwapImage(img)
    \/ load_save_data
    \/ parse
    \/ get_party_pokemon
    \/ \E i \in ReloadIndexes : get_sector_info(i)
    \/ get_active_slot

SpecReload == InitReload /\ [][NextReload]_vars

\* What a parser made by SaveParser::new() holds after load_save_data(img).
FreshSlot(img) == determine_active_slot(img).start
FreshTable(img) == build_sector_map(img, FreshSlot(img), EmptyMap)

\* C16: after any sequence of successful loads on one parser, the stored
\* image is the most recent one, and the active slot, the sector table and
\* the results of get_sector_info, get_active_slot, parse and
\* get_party_pokemon are those of a fresh parser that loaded only that image.
C16_ReloadIsFresh ==
    /\ (ret.op = "load_save_data" /\ ret.ok) => save_data = input
    /\ (Loaded /\ ~panicked) =>
          /\ active_slot_start = FreshSlot(save_data)
          /\ sector_map = FreshTable(save_data)
          /\ ret.op = "get_sector_info" =>
                ret.val = get_sector_info_internal(save_data, ret.arg)
          /\ ret.op = "get_active_slot" =>
                ret.val = active_slot_of(FreshSlot(save_data))
          /\ ret.op = "parse" =>
                ret = Ret("parse", 0, parse_result(save_data, FreshSlot(save_data),
                                                   FreshTable(save_data)))
          /\ ret.op = "get_party_pokemon" =>
                ret = Ret("get_party_pokemon", 0,
                          get_party_pokemon_result(save_data, FreshTable(save_data)))

\* A successful load on a parser that held another image, with the other
\* slot active and a table entry for an id the new image does not carry.
C16_Witness ==
    /\ ret.op = "load_save_data"
    /\ ret.ok
    /\ arg.save_data.len >= MIN_SAVE_SIZE
    /\ arg.save_data # save_data
    /\ arg.active_slot_start = 0
    /\ active_slot_start = SLOT2_START
    /\ 4 \in DOMAIN arg.sector_map
    /\ 4 \notin DOMAIN sector_map

\* C18: a load_save_data call that fails with "Save file too small" leaves
\* the stored image, the active slot and the sector table as they were, so
\* get_sector_info, get_active_slot, parse and get_party_pokemon answer as
\* before the call; and on a parser holding no image, parse and
\* get_party_pokemon fail with "No save data loaded".
C18_FailedLoadKeepsParser ==
    [][ /\ (ret'.op = "load_save_data" /\ ret'.err = "Save file too small") =>
              /\ UNCHANGED <<save_data, active_slot_start, sector_map>>
              /\ \A i \in Indexes : get_sector_info_internal(save_data', i)
                                      = get_sector_info_internal(save_data, i)
              /\ active_slot_of(active_slot_start') = active_slot_of(active_slot_start)
              /\ parse_result(save_data', active_slot_start', sector_map')
                    = parse_result(save_data, active_slot_start, sector_map)
              /\ get_party_pokemon_result(save_data', sector_map')
                    = get_party_pokemon_result(save_data, sector_map)
        /\ (ret'.op \in {"parse", "get_party_pokemon"} /\ save_data'.len = 0) =>
              /\ ~ret'.ok
              /\ ret'.err = "No save data loaded"
      ]_<<save_data, active_slot_start, sector_map, ret.op, ret.ok, ret.err>>

\* A too-small buffer was refused by a parser that holds a loaded image
\* with a non-empty table.
C18_Witness ==
    /\ ret.op = "load_save_data"
    /\ ~ret.ok
    /\ ret.err = "Save file too small"
    /\ input.len < MIN_SAVE_SIZE
    /\ Loaded
    /\ DOMAIN sector_map # {}

----------------------------------------------------------------------------
(* bytes_to_gba_string on raw bytes (specification SpecDecode) *)

\* The longest run of drawn bytes, and the most 0xFF bytes after it.
MaxBody == 4
MaxTail == 3

\* Bytes drawn: the padding 0xFF, 0x00 (a space), both ends 0x01 and 0x0F of
\* the garbage range, 0x10 (just above it, not in the table) and 0xBB ('A').
DecodeAlphabet == {255, 0, 1, 15, 16, 187}

Bodies == UNION {[0..(n - 1) -> DecodeAlphabet] : n \in 0..MaxBody}

\* body followed by tail bytes 0xFF
Padded(body, tail) ==
    LET n == Cardinality(DOMAIN body)
    IN  Buf(n + tail, [o \in 0..(n + tail - 1) |-> IF o < n THEN body[o] ELSE 255])

InitDecode ==
    /\ arg \in {[bytes |-> Padded(b, t)] : b \in Bodies, t \in 0..MaxTail}
    /\ input = EmptyBuf
    /\ save_data = EmptyBuf
    /\ active_slot_start = 0
    /\ sector_map = EmptyMap
    /\ panicked = FALSE
    /\ ret = NoRet
    /\ party = <<>>
    /\ edits = 0
    /\ sets = 0

\* bytes_to_gba_string computes find_string_end(arg.bytes)
call_find_string_end ==
    /\ ret' = Ret("find_string_end", 0, Ok(find_string_end(arg.bytes)))
    /\ UNCHANGED <<input, save_data, active_slot_start, sector_map, panicked, party, arg, edits, sets>>

\* the host calls bytes_to_gba_string(arg.bytes)
call_decode ==
    /\ ret' = Ret("bytes_to_gba_string", 0, Ok(bytes_to_gba_string(arg.bytes)))
    /\ UNCHANGED <<input, save_data, active_slot_start, sector_map, panicked, party, arg, edits, sets>>

NextDecode ==
    \/ call_find_string_end
    \/ call_decode

SpecDecode == InitDecode /\ [][NextDecode]_vars

\* Byte i of the input, and the input's length.
InByte(i) == Get(arg.bytes, i)
InLen == arg.bytes.len

\* The length of the run of 0xFF bytes the input ends in.
TrailingRun ==
    CHOOSE k \in 0..InLen :
        /\ \A j \in (InLen - k)..(InLen - 1) : InByte(j) = 255
        /\ k = InLen \/ InByte(InLen - k - 1) # 255

\* Position i holds 0xFF and is followed, after only 0xFF and 0x00 bytes, by
\* a byte in 0x01..0x0F.
GarbageAt(i) ==
    /\ InByte(i) = 255
    /\ \E j \in (i + 1)..(InLen - 1) :
          /\ InByte(j) \in 1..15
          /\ \A m \in (i + 1)..(j - 1) : InByte(m) \in {255, 0}

\* The logical end by rules (a), (b), (c), (a) before (b).
LogicalEnd ==
    IF TrailingRun > 2 THEN InLen - TrailingRun
    ELSE IF \E i \in 0..(InLen - 1) : GarbageAt(i)
    THEN CHOOSE i \in 0..(InLen - 1) :
            GarbageAt(i) /\ \A j \in 0..(i - 1) : ~GarbageAt(j)
    ELSE InLen

\* The positions before the logical end whose byte is in the table and is
\* not 0xFF, and the chars of these positions in order.
Mapped(byte) == \E e \in 1..Len(GBA_CHAR_MAP) : GBA_CHAR_MAP[e][1] = byte
CharOf(byte) == GBA_CHAR_MAP[CHOOSE e \in 1..Len(GBA_CHAR_MAP) : GBA_CHAR_MAP[e][1] = byte][2]
Kept == {i \in 0..(LogicalEnd - 1) : InByte(i) # 255 /\ Mapped(InByte(i))}
KeptText ==
    [k \in 1..Cardinality(Kept) |->
        CharOf(InByte(CHOOSE i \in Kept : Cardinality({j \in Kept : j <= i}) = k))]

\* t is s without its leading and trailing spaces.
IsTrimOf(t, s) ==
    /\ t = <<>> \/ (t[1] # " " /\ t[Len(t)] # " ")
    /\ \E a \in 1..(Len(s) + 1) :
          /\ a + Len(t) - 1 <= Len(s)
          /\ t = SubSeq(s, a, a + Len(t) - 1)
          /\ \A i \in 1..Len(s) : (i < a \/ i > a + Len(t) - 1) => s[i] = " "

\* C17: bytes_to_gba_string decodes the bytes before the logical end of
\* rules (a), (b), (c), with (a) before (b): the bytes there that are in the
\* table and not 0xFF give their chars in order, the others give nothing,
\* and the result is that text without leading and trailing whitespace.
C17_LogicalEnd ==
    /\ ret.op = "find_string_end" => ret.val = LogicalEnd
    /\ ret.op = "bytes_to_gba_string" => IsTrimOf(ret.val, KeptText)

\* Rules (a) and (b) both apply and differ: the input ends in three 0xFF
\* bytes, and before them an 0xFF is followed by garbage and then by 'A',
\* which is decoded.
C17_Witness ==
    /\ ret.op = "bytes_to_gba_string"
    /\ TrailingRun > 2
    /\ GarbageAt(0)
    /\ LogicalEnd = 3
    /\ ret.val = <<"A">>

====
